---- MODULE Spec2Model ----
(***************************************************************************)
(* A model of wavefront_promql_proxy: the query_range handler that parses  *)
(* a PromQL range query, translates it to a Wavefront query, calls the     *)
(* backend, shifts the returned timestamps by the configured skew,         *)
(* resamples every series onto the requested step grid, builds the label   *)
(* maps, sorts the series and writes the JSON response.                    *)
(*                                                                         *)
(* Representation.                                                         *)
(*  - A Go string is a sequence of one-character strings, so that it can   *)
(*    be scanned (ParseFloat) and ordered (sort.Strings, sliceLess).       *)
(*    Message texts that are only ever compared for equality are kept as   *)
(*    sequences of pieces (see Sprintf).                                   *)
(*  - A float64 holding seconds is a record [nan, v]: either NaN or the    *)
(*    finite value v / TicksPerSec seconds (fixed point, half a            *)
(*    millisecond per tick).  Infinities, rounding and exponents are       *)
(*    outside the model.                                                   *)
(*  - A sample value (float64) is a whole number.                          *)
(***************************************************************************)
EXTENDS Integers, Sequences, FiniteSets, TLC

(***************************************************************************)
(* Strings                                                                 *)
(***************************************************************************)

\* The byte value of every character the model uses (Go compares strings
\* byte by byte).
Code ==
    [c \in {"+", "-", ".", "0", "1", "2", "3", "4", "5", "6", "7", "8", "9",
            "N", "_", "a", "b", "c", "e", "h", "i", "m", "n", "o", "s", "t",
            "x"} |->
        CASE c = "+" -> 43 [] c = "-" -> 45 [] c = "." -> 46
          [] c = "0" -> 48 [] c = "1" -> 49 [] c = "2" -> 50 [] c = "3" -> 51
          [] c = "4" -> 52 [] c = "5" -> 53 [] c = "6" -> 54 [] c = "7" -> 55
          [] c = "8" -> 56 [] c = "9" -> 57 [] c = "N" -> 78 [] c = "_" -> 95
          [] c = "a" -> 97 [] c = "b" -> 98 [] c = "c" -> 99 [] c = "e" -> 101
          [] c = "h" -> 104 [] c = "i" -> 105 [] c = "m" -> 109
          [] c = "n" -> 110 [] c = "o" -> 111 [] c = "s" -> 115
          [] c = "t" -> 116 [] c = "x" -> 120]

Digits == {"0", "1", "2", "3", "4", "5", "6", "7", "8", "9"}

DigitVal(c) == Code[c] - Code["0"]

DigitChar(d) == CHOOSE c \in Digits : DigitVal(c) = d

\* Go's < on strings: the first differing byte decides, a proper prefix is
\* smaller.
RECURSIVE StrLess(_, _)
StrLess(a, b) ==
    IF b = <<>> THEN FALSE
    ELSE IF a = <<>> THEN TRUE
    ELSE IF Code[Head(a)] < Code[Head(b)] THEN TRUE
    ELSE IF Code[Head(a)] > Code[Head(b)] THEN FALSE
    ELSE StrLess(Tail(a), Tail(b))

\* fmt.Sprintf with one %s: the text before, the argument, the text after.
Sprintf(before, arg, after) == <<before, arg, after>>

(***************************************************************************)
(* float64                                                                 *)
(***************************************************************************)

\* Ticks per second: the resolution of a modelled float64 of seconds.
TicksPerSec == 2 * 1000

\* A time.Duration is counted in microseconds here (the program counts
\* nanoseconds): the durations of the model are whole microseconds.
MicrosPerSec == 1000 * 1000

\* The stand-in for the minimum int64, -2^63: TLC's integers are 32
\* bits wide.  Only its sign and its decimal text (FormatInt) are used.
MinInt64 == -(2 ^ 30)

Fin(n) == [nan |-> FALSE, v |-> n]

NaN == [nan |-> TRUE, v |-> 0]

FAdd(a, b) == IF a.nan \/ b.nan THEN NaN ELSE Fin(a.v + b.v)

FSub(a, b) == IF a.nan \/ b.nan THEN NaN ELSE Fin(a.v - b.v)

\* float64(i) * x for an int i.
FScale(i, x) == IF x.nan THEN NaN ELSE Fin(i * x.v)

\* Every comparison with a NaN operand is false.
FLt(a, b) == ~a.nan /\ ~b.nan /\ a.v < b.v

FLe(a, b) == ~a.nan /\ ~b.nan /\ a.v <= b.v

FGe(a, b) == ~a.nan /\ ~b.nan /\ a.v >= b.v

\* Truncation toward zero of the quotient n / d, d > 0.
TruncDiv(n, d) == IF n >= 0 THEN n \div d ELSE -((-n) \div d)

\* The results a Go conversion of a float to a 64-bit integer can give.  A
\* finite value is truncated toward zero; for NaN the language leaves the
\* result to the implementation (amd64 gives the minimum int64, arm64 0).
\* num / den is the value converted.
IntOf(isNaN, num, den) ==
    IF isNaN THEN {MinInt64, 0} ELSE {TruncDiv(num, den)}

(***************************************************************************)
(* strconv                                                                 *)
(***************************************************************************)

\* The number a string of decimal digits denotes.
RECURSIVE DecVal(_)
DecVal(s) ==
    IF s = <<>> THEN 0
    ELSE DecVal(SubSeq(s, 1, Len(s) - 1)) * 10 + DigitVal(s[Len(s)])

AllDigits(s) == \A i \in 1..Len(s) : s[i] \in Digits

Pow10(k) == 10 ^ k

\* strconv.ParseFloat(s, 64) on the texts the model feeds it: "NaN", and
\* plain decimals [+-]digits[.digits] with at least one digit.  Anything
\* else the model feeds it (the empty text, letters) is a syntax error.
\* A decimal is converted to ticks; the model's decimals are whole ticks.
ParseFloat(s) ==
    IF s = <<"N", "a", "N">> THEN [ok |-> TRUE, val |-> NaN]
    ELSE
        LET signed == s # <<>> /\ s[1] \in {"+", "-"}
            neg == s # <<>> /\ s[1] = "-"
            body == IF signed THEN Tail(s) ELSE s
            dots == {i \in 1..Len(body) : body[i] = "."}
            dot == IF dots = {} THEN Len(body) + 1
                   ELSE CHOOSE i \in dots : \A j \in dots : i <= j
            ip == SubSeq(body, 1, dot - 1)
            fp == SubSeq(body, dot + 1, Len(body))
            wellFormed == /\ Cardinality(dots) <= 1
                          /\ AllDigits(ip)
                          /\ AllDigits(fp)
                          /\ Len(ip) + Len(fp) >= 1
            mag == DecVal(ip) * TicksPerSec
                     + (DecVal(fp) * TicksPerSec) \div Pow10(Len(fp))
        IN  IF wellFormed
            THEN [ok |-> TRUE, val |-> Fin(IF neg THEN -mag ELSE mag)]
            ELSE [ok |-> FALSE, val |-> NaN]

\* The decimal digits of n >= 0.
RECURSIVE NatDigits(_)
NatDigits(n) ==
    IF n < 10 THEN <<DigitChar(n)>>
    ELSE Append(NatDigits(n \div 10), DigitChar(n % 10))

\* strconv.FormatInt(n, 10).
FormatInt(n) ==
    IF n = MinInt64
    THEN <<"-", "9", "2", "2", "3", "3", "7", "2", "0", "3", "6", "8", "5",
           "4", "7", "7", "5", "8", "0", "8">>
    ELSE IF n < 0 THEN <<"-">> \o NatDigits(-n) ELSE NatDigits(n)

(***************************************************************************)
(* Errors                                                                  *)
(***************************************************************************)

\* The placeholder for a nil error.
NoError == [type |-> "nil", Status |-> "", ErrorType |-> "", Err |-> <<>>]

newBadDataPromQLError(str) ==
    [type |-> "promQLError", Status |-> "error", ErrorType |-> "bad_data",
     Err |-> str]

\* An error of the backend client that is no *promQLError: the request
\* could not be sent or the reply could not be read.
TransportError(msg) ==
    [type |-> "transport", Status |-> "", ErrorType |-> "", Err |-> msg]

\* err.Error(): a *promQLError renders itself as a JSON object with the
\* keys status, errorType and error; any other error is its plain message.
ErrorText(err) ==
    IF err.type = "promQLError"
    THEN [json |-> TRUE,
          obj |-> [status |-> err.Status, errorType |-> err.ErrorType,
                   error |-> err.Err],
          text |-> <<>>]
    ELSE [json |-> FALSE,
          obj |-> [status |-> "", errorType |-> "", error |-> <<>>],
          text |-> err.Err]

(***************************************************************************)
(* Request parsing                                                         *)
(***************************************************************************)

\* The placeholder for a nil *promQLQuery.
NoQuery == [Start |-> NaN, End |-> NaN, Step |-> NaN, Query |-> <<>>]

MsgStepWidth ==
    <<"zero or negative query resolution step widths are not accepted. Try a positive integer">>

MsgEndBeforeStart == <<"end timestamp must not be before start time">>

\* extractPromQL testing end < start before step <= 0: a faulty variant,
\* which C16_Precedence tells from extractPromQL.
extractPromQLEndFirst(form) ==
    LET start == ParseFloat(form.start)
        end == ParseFloat(form.end)
        step == ParseFloat(form.step)
        fail(msg) == [ok |-> FALSE, query |-> NoQuery,
                      err |-> newBadDataPromQLError(msg)]
    IN  IF ~start.ok
        THEN fail(Sprintf("invalid parameter 'start': cannot parse \"",
                          form.start, "\" to a valid timestamp"))
        ELSE IF ~end.ok
        THEN fail(Sprintf("invalid parameter 'end': cannot parse \"",
                          form.end, "\" to a valid timestamp"))
        ELSE IF ~step.ok
        THEN fail(Sprintf("invalid parameter 'step': cannot parse \"",
                          form.step, "\" to a valid duration"))
        ELSE IF FLt(end.val, start.val)
        THEN fail(MsgEndBeforeStart)
        ELSE IF FLe(step.val, Fin(0))
        THEN fail(MsgStepWidth)
        ELSE [ok |-> TRUE,
              query |-> [Start |-> start.val, End |-> end.val,
                         Step |-> step.val, Query |-> form.query],
              err |-> NoError]

\* extractPromQL on the parsed form: start, end and step are parsed in this
\* order and the first failure is returned; then step <= 0 and end < start
\* are rejected.
extractPromQL(form) ==
    LET start == ParseFloat(form.start)
        end == ParseFloat(form.end)
        step == ParseFloat(form.step)
        fail(msg) == [ok |-> FALSE, query |-> NoQuery,
                      err |-> newBadDataPromQLError(msg)]
    IN  IF ~start.ok
        THEN fail(Sprintf("invalid parameter 'start': cannot parse \"",
                          form.start, "\" to a valid timestamp"))
        ELSE IF ~end.ok
        THEN fail(Sprintf("invalid parameter 'end': cannot parse \"",
                          form.end, "\" to a valid timestamp"))
        ELSE IF ~step.ok
        THEN fail(Sprintf("invalid parameter 'step': cannot parse \"",
                          form.step, "\" to a valid duration"))
        ELSE IF FLe(step.val, Fin(0))
        THEN fail(MsgStepWidth)
        ELSE IF FLt(end.val, start.val)
        THEN fail(MsgEndBeforeStart)
        ELSE [ok |-> TRUE,
              query |-> [Start |-> start.val, End |-> end.val,
                         Step |-> step.val, Query |-> form.query],
              err |-> NoError]

(***************************************************************************)
(* Time range translation                                                  *)
(***************************************************************************)

\* The seconds subtracted from the start (15.0).
LeadInSeconds == 15

\* The seconds added to the end (1.0).
EndPadSeconds == 1

\* The factor from seconds to milliseconds.
MsPerSec == 1000

\* float64(h.skew) / float64(time.Second).
SkewSeconds(hskew) == Fin(hskew \div (MicrosPerSec \div TicksPerSec))

\* The translation without the lead-in before the start: a faulty variant,
\* which C3_Truncated tells from convertToWavefrontAndSkewEarlier.
convertToWavefrontNoLeadIn(hskew, query) ==
    LET skew == SkewSeconds(hskew)
        s == FSub(query.Start, skew)
        e == FSub(FAdd(query.End, Fin(EndPadSeconds * TicksPerSec)), skew)
    IN  {[Q |-> query.Query, S |-> FormatInt(si), E |-> FormatInt(ei),
          G |-> "s"] :
            si \in IntOf(s.nan, s.v * MsPerSec, TicksPerSec),
            ei \in IntOf(e.nan, e.v * MsPerSec, TicksPerSec)}

\* The wavefront queries convertToWavefrontAndSkewEarlier can return (one,
\* unless a NaN is converted to int64).
convertToWavefrontAndSkewEarlier(hskew, query) ==
    LET skew == SkewSeconds(hskew)
        s == FSub(FSub(query.Start, Fin(LeadInSeconds * TicksPerSec)), skew)
        e == FSub(FAdd(query.End, Fin(EndPadSeconds * TicksPerSec)), skew)
    IN  {[Q |-> query.Query, S |-> FormatInt(si), E |-> FormatInt(ei),
          G |-> "s"] :
            si \in IntOf(s.nan, s.v * MsPerSec, TicksPerSec),
            ei \in IntOf(e.nan, e.v * MsPerSec, TicksPerSec)}

(***************************************************************************)
(* Skew correction                                                         *)
(***************************************************************************)

\* A data point is <<timestamp, value>>: the timestamp in ticks, the value
\* a whole number.  A time series is [Label, Host, Tags, DataPoints]; a
\* query response is [ErrType, ErrMessage, TimeSeries].

\* skewLater with the sign of the skew wrong: a faulty variant, which
\* C10_SkewLater tells from skewLater.
skewLaterEarlier(hskew, response) ==
    LET skew == SkewSeconds(hskew)
        shift(dp) == <<FSub(Fin(dp[1]), skew).v, dp[2]>>
        shiftSeries(t) ==
            [t EXCEPT !.DataPoints =
                [j \in 1..Len(t.DataPoints) |-> shift(t.DataPoints[j])]]
    IN  [response EXCEPT !.TimeSeries =
            [i \in 1..Len(response.TimeSeries) |->
                shiftSeries(response.TimeSeries[i])]]

\* skewLater: the skew is added to the timestamp of every data point, in
\* place.
skewLater(hskew, response) ==
    LET skew == SkewSeconds(hskew)
        shift(dp) == <<FAdd(Fin(dp[1]), skew).v, dp[2]>>
        shiftSeries(t) ==
            [t EXCEPT !.DataPoints =
                [j \in 1..Len(t.DataPoints) |-> shift(t.DataPoints[j])]]
    IN  [response EXCEPT !.TimeSeries =
            [i \in 1..Len(response.TimeSeries) |->
                shiftSeries(response.TimeSeries[i])]]

(***************************************************************************)
(* Label maps                                                              *)
(***************************************************************************)

S_name == <<"_", "_", "n", "a", "m", "e", "_", "_">>

S_instance == <<"i", "n", "s", "t", "a", "n", "c", "e">>

\* A map[string]string is a function from its keys.
EmptyMap == [k \in {} |-> <<>>]

\* m[k] = v
MapSet(m, k, v) ==
    [x \in (DOMAIN m) \cup {k} |-> IF x = k THEN v ELSE m[x]]

\* for k, v := range tags { m[k] = v }, the keys left to visit being keys.
RECURSIVE RangeSet(_, _, _)
RangeSet(m, tags, keys) ==
    IF keys = {} THEN m
    ELSE LET k == CHOOSE x \in keys : TRUE
         IN  RangeSet(MapSet(m, k, tags[k]), tags, keys \ {k})

\* The label map with the tags laid down first, so that __name__ and
\* instance overwrite a tag of the same name: a faulty variant, which
\* C9_LabelMap tells from extractPromQLMetric.
extractPromQLMetricTagsFirst(t) ==
    LET r0 == RangeSet(EmptyMap, t.Tags, DOMAIN t.Tags)
        r1 == IF t.Label # <<>> THEN MapSet(r0, S_name, t.Label) ELSE r0
    IN  IF t.Host # <<>> THEN MapSet(r1, S_instance, t.Host) ELSE r1

extractPromQLMetric(t) ==
    LET r0 == EmptyMap
        r1 == IF t.Label # <<>> THEN MapSet(r0, S_name, t.Label) ELSE r0
        r2 == IF t.Host # <<>> THEN MapSet(r1, S_instance, t.Host) ELSE r1
    IN  RangeSet(r2, t.Tags, DOMAIN t.Tags)

(***************************************************************************)
(* Resampling                                                              *)
(***************************************************************************)

\* The exponent from which the shortest 'g' format switches to %e.
ShortestEPrec == 6

RECURSIVE StripZeros(_)
StripZeros(ds) ==
    IF Len(ds) > 1 /\ ds[Len(ds)] = "0"
    THEN StripZeros(SubSeq(ds, 1, Len(ds) - 1))
    ELSE ds

\* The %e form of n >= 1: d.ddde+XX, the exponent with at least two digits.
EForm(n) ==
    LET ds == NatDigits(n)
        sig == StripZeros(ds)
        exp == Len(ds) - 1
        mant == IF Len(sig) = 1 THEN sig ELSE <<sig[1], ".">> \o Tail(sig)
        ex == IF exp < 10 THEN <<"0">> \o NatDigits(exp) ELSE NatDigits(exp)
    IN  mant \o <<"e", "+">> \o ex

\* floatToString: strconv.FormatFloat(x, 'g', -1, 64) of a whole number.
floatToString(x) ==
    LET mag == IF x < 0 THEN -x ELSE x
        body == IF Len(NatDigits(mag)) - 1 >= ShortestEPrec
                THEN EForm(mag) ELSE NatDigits(mag)
    IN  IF x < 0 THEN <<"-">> \o body ELSE body

\* A [][2]interface{}: nil, or a slice with its items.
NilSlice == [nil |-> TRUE, items |-> <<>>]

EmptySlice == [nil |-> FALSE, items |-> <<>>]

AppendSlice(sl, x) == [nil |-> FALSE, items |-> Append(sl.items, x)]

\* resultSize with one pass too many: a faulty variant, which
\* C12_LengthBound tells from ResultSizes.
ResultSizesOneMore(query) ==
    LET d == FSub(query.End, query.Start)
    IN  {n + 2 : n \in IntOf(d.nan \/ query.Step.nan, d.v, query.Step.v)}

\* The values resultSize can take: int((End-Start)/Step) + 1.  The callers
\* pass Step > 0 or a NaN.
ResultSizes(query) ==
    LET d == FSub(query.End, query.Start)
    IN  {n + 1 : n \in IntOf(d.nan \/ query.Step.nan, d.v, query.Step.v)}

\* The inner loop stopping at a sample whose timestamp equals the grid
\* timestamp: a faulty variant, which C1_Resampled tells from
\* AdvanceCursor.
RECURSIVE AdvanceCursorStrict(_, _, _)
AdvanceCursorStrict(data, indexPlus1, timestamp) ==
    IF indexPlus1 < Len(data) /\ FLt(Fin(data[indexPlus1 + 1][1]), timestamp)
    THEN AdvanceCursorStrict(data, indexPlus1 + 1, timestamp)
    ELSE indexPlus1

\* The inner loop: indexPlus1 advances while the next sample is not after
\* timestamp.  Go's data[k] is data[k+1] here.
RECURSIVE AdvanceCursor(_, _, _)
AdvanceCursor(data, indexPlus1, timestamp) ==
    IF indexPlus1 < Len(data) /\ FLe(Fin(data[indexPlus1 + 1][1]), timestamp)
    THEN AdvanceCursor(data, indexPlus1 + 1, timestamp)
    ELSE indexPlus1

GridTimestamp(query, i) == FAdd(query.Start, FScale(i, query.Step))

\* One pass that forward-fills, emitting the candidate however stale it
\* is: a faulty variant, which C11_SingleSampleBeforeStart tells from
\* ResampleIteration.
ResampleIterationForwardFill(data, query, i, st) ==
    LET timestamp == FAdd(query.Start, FScale(i, query.Step))
        ip1 == AdvanceCursor(data, st.indexPlus1, timestamp)
        timestampdiff == FSub(timestamp, Fin(data[ip1][1]))
    IN  [indexPlus1 |-> ip1,
         result |->
            IF FGe(timestampdiff, Fin(0))
            THEN AppendSlice(st.result,
                             <<timestamp, floatToString(data[ip1][2])>>)
            ELSE st.result]

\* One pass of the outer loop, for grid index i, from the loop state
\* st = [indexPlus1, result].
ResampleIteration(data, query, i, st) ==
    LET timestamp == GridTimestamp(query, i)
        ip1 == AdvanceCursor(data, st.indexPlus1, timestamp)
        timestampdiff == FSub(timestamp, Fin(data[ip1][1]))
    IN  [indexPlus1 |-> ip1,
         result |->
            IF FGe(timestampdiff, Fin(0)) /\ FLt(timestampdiff, query.Step)
            THEN AppendSlice(st.result,
                             <<timestamp, floatToString(data[ip1][2])>>)
            ELSE st.result]

\* The loop state with the cursor before the first sample: a faulty
\* variant, which C14_Cursor tells from ResampleStart.
ResampleStartAtZero == [indexPlus1 |-> 0, result |-> NilSlice]

\* The loop state before the first pass.
ResampleStart == [indexPlus1 |-> 1, result |-> NilSlice]

RECURSIVE ResampleLoop(_, _, _, _, _)
ResampleLoop(data, query, resultSize, i, st) ==
    IF i < resultSize
    THEN ResampleLoop(data, query, resultSize, i + 1,
                      ResampleIteration(data, query, i, st))
    ELSE st

\* The values extractPromQLData can return (one, unless a NaN is converted
\* to int).
extractPromQLData(data, query) ==
    IF Len(data) = 0 THEN {EmptySlice}
    ELSE {ResampleLoop(data, query, n, 0, ResampleStart).result :
            n \in ResultSizes(query)}

(***************************************************************************)
(* Sorting                                                                 *)
(***************************************************************************)

\* sort.Strings on the keys of a map: the keys in ascending order.
RECURSIVE SortStrings(_)
SortStrings(keys) ==
    IF keys = {} THEN <<>>
    ELSE LET least == CHOOSE k \in keys :
                        \A o \in keys \ {k} : StrLess(k, o)
         IN  <<least>> \o SortStrings(keys \ {least})

RECURSIVE FlattenEntries(_, _)
FlattenEntries(metric, keys) ==
    IF keys = <<>> THEN <<>>
    ELSE <<Head(keys), metric[Head(keys)]>>
            \o FlattenEntries(metric, Tail(keys))

metricMapToSlice(metric) == FlattenEntries(metric, SortStrings(DOMAIN metric))

\* The loop of sliceLess from index i (Go's lhs[i] is lhs[i+1] here).
RECURSIVE SliceLessFrom(_, _, _)
SliceLessFrom(lhs, rhs, i) ==
    IF i < Len(lhs) /\ i < Len(rhs)
    THEN IF StrLess(lhs[i + 1], rhs[i + 1]) THEN TRUE
         ELSE IF StrLess(rhs[i + 1], lhs[i + 1]) THEN FALSE
         ELSE SliceLessFrom(lhs, rhs, i + 1)
    ELSE Len(lhs) < Len(rhs)

sliceLess(lhs, rhs) == SliceLessFrom(lhs, rhs, 0)

\* promQLTimeSeriesSorter.initialize
SorterInitialize(timeSeries) ==
    [timeSeries |-> timeSeries,
     metricKeyValues |->
        [i \in 1..Len(timeSeries) |-> metricMapToSlice(timeSeries[i].Metric)]]

SorterLess(p, i, j) == sliceLess(p.metricKeyValues[i], p.metricKeyValues[j])

SwapAt(seq, i, j) ==
    [k \in 1..Len(seq) |->
        IF k = i THEN seq[j] ELSE IF k = j THEN seq[i] ELSE seq[k]]

\* Swap exchanging the keys and leaving the series where they are: a
\* faulty variant, which C7_Sorted tells from SorterSwap.
SorterSwapKeysOnly(p, i, j) ==
    [timeSeries |-> p.timeSeries,
     metricKeyValues |-> SwapAt(p.metricKeyValues, i, j)]

SorterSwap(p, i, j) ==
    [timeSeries |-> SwapAt(p.timeSeries, i, j),
     metricKeyValues |-> SwapAt(p.metricKeyValues, i, j)]

SorterLen(p) == Len(p.timeSeries)

\* The sequences of at most k swaps of two places among n.
RECURSIVE SwapSeqs(_, _)
SwapSeqs(n, k) ==
    IF k <= 0 THEN {<<>>}
    ELSE LET shorter == SwapSeqs(n, k - 1)
         IN  shorter \cup
             {Append(sw, pr) :
                sw \in shorter,
                pr \in {x \in (1..n) \X (1..n) : x[1] < x[2]}}

RECURSIVE ApplySwaps(_, _)
ApplySwaps(p, swaps) ==
    IF swaps = <<>> THEN p
    ELSE ApplySwaps(SorterSwap(p, Head(swaps)[1], Head(swaps)[2]),
                    Tail(swaps))

\* sort.Sort(p): the library reorders p through p.Swap alone until no
\* element is p.Less than an earlier one; it is documented not to be
\* stable, so every arrangement with that property is a possible outcome.
SortSort(p) ==
    {q \in {ApplySwaps(p, sw) : sw \in SwapSeqs(SorterLen(p), SorterLen(p) - 1)} :
        \A i, j \in 1..SorterLen(q) : i < j => ~SorterLess(q, j, i)}

\* The arrangements sortTimeSeriesInPlace can leave in timeSeries.
sortTimeSeriesInPlace(timeSeries) ==
    {q.timeSeries : q \in SortSort(SorterInitialize(timeSeries))}

(***************************************************************************)
(* Response assembly                                                       *)
(***************************************************************************)

\* The placeholder for a nil *promQLResponse.
NoResponse == [Status |-> "", Data |-> [ResultType |-> "", Result |-> <<>>]]

\* The sequences that take, at every place i, one element of choices[i].
RECURSIVE Pick(_)
Pick(choices) ==
    IF choices = <<>> THEN {<<>>}
    ELSE {<<h>> \o t : h \in Head(choices), t \in Pick(Tail(choices))}

\* The results convertFromWavefront can return.
convertFromWavefront(response, query) ==
    IF response.ErrType # ""
    THEN {[ok |-> FALSE, result |-> NoResponse,
           err |-> newBadDataPromQLError(response.ErrMessage)]}
    ELSE LET values == Pick([i \in 1..Len(response.TimeSeries) |->
                        extractPromQLData(response.TimeSeries[i].DataPoints,
                                          query)])
             assembled(vs) ==
                [i \in 1..Len(response.TimeSeries) |->
                    [Metric |-> extractPromQLMetric(response.TimeSeries[i]),
                     Values |-> vs[i]]]
         IN  {[ok |-> TRUE,
               result |-> [Status |-> "success",
                           Data |-> [ResultType |-> "matrix",
                                     Result |-> sorted]],
               err |-> NoError] :
                sorted \in UNION {sortTimeSeriesInPlace(assembled(vs)) :
                                    vs \in values}}

(***************************************************************************)
(* Response writer and JSON encoding                                       *)
(***************************************************************************)

\* An http.ResponseWriter: the status code (0 while no header is written)
\* and the chunks written to the body, in order.
NewWriter == [code |-> 0, body |-> <<>>]

WriteHeader(rw, code) == IF rw.code = 0 THEN [rw EXCEPT !.code = code] ELSE rw

\* Write sends the header with status 200 when none was written before.
Write(rw, chunk) ==
    [code |-> IF rw.code = 0 THEN 200 ELSE rw.code,
     body |-> Append(rw.body, chunk)]

\* writeError: status 400, then the text of the error.
writeError(rw, err) == Write(WriteHeader(rw, 400), ErrorText(err))

\* http_util.Error(w, http.StatusMethodNotAllowed): the status and its
\* text.
MethodNotAllowed(rw) ==
    Write(WriteHeader(rw, 405),
          [json |-> FALSE,
           obj |-> [status |-> "", errorType |-> "", error |-> <<>>],
           text |-> <<"Method Not Allowed">>])

\* The JSON value of a [][2]interface{}: null for a nil slice, else the
\* array of [timestamp, text] pairs.
JsonValues(sl) == [null |-> sl.nil, array |-> sl.items]

\* json.NewEncoder(w).Encode(&promQLResult): one object with the keys of
\* the struct tags.
EncodeResponse(r) ==
    [json |-> TRUE,
     obj |-> [status |-> r.Status,
              data |-> [resultType |-> r.Data.ResultType,
                        result |-> [i \in 1..Len(r.Data.Result) |->
                            [metric |-> r.Data.Result[i].Metric,
                             values |-> JsonValues(r.Data.Result[i].Values)]]]],
     text |-> <<>>]

(***************************************************************************)
(* Bounds and inputs of the request handler                                *)
(***************************************************************************)

\* The most series in a backend response.
MaxSeries == 2

Str(c) == <<c>>

T_100 == <<"1", "0", "0">>

T_110 == <<"1", "1", "0">>

T_50 == <<"5", "0">>

T_NaN == <<"N", "a", "N">>

\* The values of the -skew flag, in microseconds: none, five seconds
\* earlier, five seconds later.
Skews == {0, 5 * MicrosPerSec, -5 * MicrosPerSec}

Methods == {"GET", "POST", "PUT"}

StartTexts == {T_100, T_NaN, <<>>, <<"a", "b", "c">>}

EndTexts == {T_110, T_50, T_NaN, <<"x">>}

StepTexts == {<<"5">>, <<"0">>, <<"-", "1">>, T_NaN, <<>>}

QueryTexts == {<<"c", "o", "s", "t">>}

Sec(n) == n * TicksPerSec

\* The series a backend response of the model is made of.
SeriesA ==
    [Label |-> Str("a"), Host |-> Str("h"), Tags |-> EmptyMap,
     DataPoints |-> <<<<Sec(100), 5>>, <<Sec(105), 7>>>>]

SeriesB ==
    [Label |-> Str("b"), Host |-> <<>>,
     Tags |-> [k \in {S_name} |-> Str("c")],
     DataPoints |-> <<>>]

SeriesC ==
    [Label |-> Str("a"), Host |-> Str("h"), Tags |-> EmptyMap,
     DataPoints |-> <<<<Sec(95), 12>>>>]

SeriesD ==
    [Label |-> <<>>, Host |-> Str("x"),
     Tags |-> [k \in {S_instance} |-> Str("i")],
     DataPoints |-> <<<<Sec(90), 1>>, <<Sec(100), 2>>, <<Sec(100), 1500000>>,
                      <<Sec(111), -4>>>>]

SeriesUniverse == {SeriesA, SeriesB, SeriesC, SeriesD}

RECURSIVE SeqsUpTo(_, _)
SeqsUpTo(S, n) ==
    IF n = 0 THEN {<<>>}
    ELSE LET shorter == SeqsUpTo(S, n - 1)
         IN  shorter \cup {Append(q, x) : q \in shorter, x \in S}

\* The placeholder for a nil *wavefront.QueryResponse.
NoQueryResponse == [ErrType |-> "", ErrMessage |-> <<>>, TimeSeries |-> <<>>]

MsgUpstream == <<"upstream: cannot parse query">>

MsgTransport == <<"dial tcp: connection refused">>

\* What q.Execute() can return: an error of the transport, a response that
\* carries an error of the backend, or a response with series.
ExecuteOutcomes ==
    {[err |-> TransportError(MsgTransport), response |-> NoQueryResponse]}
    \cup {[err |-> NoError,
           response |-> [ErrType |-> "QueryExecutionException",
                         ErrMessage |-> MsgUpstream, TimeSeries |-> <<>>]]}
    \cup {[err |-> NoError,
           response |-> [ErrType |-> "", ErrMessage |-> <<>>,
                         TimeSeries |-> ts]] :
            ts \in SeqsUpTo(SeriesUniverse, MaxSeries)}

NoRequest ==
    [method |-> "", form |-> [start |-> <<>>, end |-> <<>>, step |-> <<>>,
                              query |-> <<>>]]

Requests ==
    {[method |-> m, form |-> [start |-> a, end |-> b, step |-> c,
                              query |-> q]] :
        m \in Methods, a \in StartTexts, b \in EndTexts, c \in StepTexts,
        q \in QueryTexts}

NoWavefrontQuery == [Q |-> <<>>, S |-> <<>>, E |-> <<>>, G |-> ""]

NoOutcome == [err |-> NoError, response |-> NoQueryResponse]

(***************************************************************************)
(* State                                                                   *)
(***************************************************************************)

VARIABLES
    skew,            \* queryHandler.skew, set at startup
    pc,              \* where ServeHTTP stands
    req,             \* the request being served
    promQL,          \* the parsed query
    wavefrontQuery,  \* the translated query
    executed,        \* what q.Execute() returned
    wavefrontResult, \* the backend response after skewLater
    promQLResult,    \* the assembled response
    w,               \* the response writer
    log,             \* the calls made while serving the request, in order
    rs,              \* extractPromQLData run pass by pass
    so,              \* sortTimeSeriesInPlace run on its own
    tr,              \* convertToWavefrontAndSkewEarlier run on its own
    mt,              \* extractPromQLMetric run on its own
    sched            \* the goroutines serving requests side by side

hvars == <<skew, pc, req, promQL, wavefrontQuery, executed, wavefrontResult,
           promQLResult, w, log>>

vars == <<skew, pc, req, promQL, wavefrontQuery, executed, wavefrontResult,
          promQLResult, w, log, rs, so, tr, mt, sched>>

Unused == [pc |-> "unused"]

HandlerUnused ==
    /\ skew = 0
    /\ pc = "unused"
    /\ req = NoRequest
    /\ promQL = NoQuery
    /\ wavefrontQuery = NoWavefrontQuery
    /\ executed = NoOutcome
    /\ wavefrontResult = NoQueryResponse
    /\ promQLResult = NoResponse
    /\ w = NewWriter
    /\ log = <<>>
    /\ sched = Unused

(***************************************************************************)
(* The request handler                                                     *)
(***************************************************************************)

\* main: the handler is registered with the skew of the flag; no request
\* is being served.
Init ==
    /\ skew \in Skews
    /\ pc = "idle"
    /\ req = NoRequest
    /\ promQL = NoQuery
    /\ wavefrontQuery = NoWavefrontQuery
    /\ executed = NoOutcome
    /\ wavefrontResult = NoQueryResponse
    /\ promQLResult = NoResponse
    /\ w = NewWriter
    /\ log = <<>>
    /\ rs = Unused
    /\ so = Unused
    /\ tr = Unused
    /\ mt = Unused
    /\ sched = Unused

\* The server hands a request to ServeHTTP.
Accept ==
    /\ pc = "idle"
    /\ \E r \in Requests : req' = r
    /\ pc' = "parse"
    /\ UNCHANGED <<skew, promQL, wavefrontQuery, executed, wavefrontResult,
                   promQLResult, w, log, rs, so, tr, mt, sched>>

\* ServeHTTP up to the parsed query: the method check, ParseForm and
\* extractPromQL.
ServeParse ==
    /\ pc = "parse"
    /\ IF req.method # "GET" /\ req.method # "POST"
       THEN /\ w' = MethodNotAllowed(w)
            /\ pc' = "done"
            /\ UNCHANGED <<promQL, log>>
       ELSE LET r == extractPromQL(req.form)
            IN  IF ~r.ok
                THEN /\ w' = writeError(w, r.err)
                     /\ pc' = "done"
                     /\ log' = log \o <<"extractPromQL", "writeError">>
                     /\ UNCHANGED promQL
                ELSE /\ promQL' = r.query
                     /\ pc' = "convert"
                     /\ log' = Append(log, "extractPromQL")
                     /\ UNCHANGED w
    /\ UNCHANGED <<skew, req, wavefrontQuery, executed, wavefrontResult,
                   promQLResult, rs, so, tr, mt, sched>>

\* ServeHTTP: convertToWavefrontAndSkewEarlier, which returns no error.
ServeConvert ==
    /\ pc = "convert"
    /\ \E q \in convertToWavefrontAndSkewEarlier(skew, promQL) :
            wavefrontQuery' = q
    /\ pc' = "send"
    /\ log' = Append(log, "convertToWavefrontAndSkewEarlier")
    /\ UNCHANGED <<skew, req, promQL, executed, wavefrontResult,
                   promQLResult, w, rs, so, tr, mt, sched>>

\* ServeSend calling the backend again after a failed call: a faulty
\* variant, which C6_NoRetry tells from ServeSend.
ServeSendRetry ==
    /\ pc = "send"
    /\ \E out \in ExecuteOutcomes :
        /\ executed' = out
        /\ IF out.err # NoError
           THEN /\ pc' = "send"
                /\ log' = log \o <<"Execute">>
                /\ UNCHANGED <<w, wavefrontResult>>
           ELSE /\ wavefrontResult' = skewLater(skew, out.response)
                /\ pc' = "from"
                /\ log' = log \o <<"Execute", "skewLater">>
                /\ UNCHANGED w
    /\ UNCHANGED <<skew, req, promQL, wavefrontQuery, promQLResult, rs, so,
                   tr, mt, sched>>

\* ServeHTTP: sendToWavefrontAndSkewLater.  The query is executed; an error
\* is returned and written, a response goes through skewLater.
ServeSend ==
    /\ pc = "send"
    /\ \E out \in ExecuteOutcomes :
        /\ executed' = out
        /\ IF out.err # NoError
           THEN /\ w' = writeError(w, out.err)
                /\ pc' = "done"
                /\ log' = log \o <<"Execute", "writeError">>
                /\ UNCHANGED wavefrontResult
           ELSE /\ wavefrontResult' = skewLater(skew, out.response)
                /\ pc' = "from"
                /\ log' = log \o <<"Execute", "skewLater">>
                /\ UNCHANGED w
    /\ UNCHANGED <<skew, req, promQL, wavefrontQuery, promQLResult, rs, so,
                   tr, mt, sched>>

\* The calls convertFromWavefront makes on a response without error.
AssemblyCalls(response) ==
    [i \in 1..(2 * Len(response.TimeSeries)) |->
        IF i % 2 = 1 THEN "extractPromQLMetric" ELSE "extractPromQLData"]
    \o <<"sortTimeSeriesInPlace">>

\* ServeFrom without the return after writeError, so that the nil result
\* is encoded after the error: a faulty variant, which C5_AllOrNothing
\* tells from ServeFrom.
ServeFromNoReturn ==
    /\ pc = "from"
    /\ \E r \in convertFromWavefront(wavefrontResult, promQL) :
        IF ~r.ok
        THEN /\ w' = writeError(w, r.err)
             /\ pc' = "encode"
             /\ log' = log \o <<"convertFromWavefront", "writeError">>
             /\ UNCHANGED promQLResult
        ELSE /\ promQLResult' = r.result
             /\ pc' = "encode"
             /\ log' = log \o <<"convertFromWavefront">>
                           \o AssemblyCalls(wavefrontResult)
             /\ UNCHANGED w
    /\ UNCHANGED <<skew, req, promQL, wavefrontQuery, executed,
                   wavefrontResult, rs, so, tr, mt, sched>>

\* ServeHTTP: convertFromWavefront.
ServeFrom ==
    /\ pc = "from"
    /\ \E r \in convertFromWavefront(wavefrontResult, promQL) :
        IF ~r.ok
        THEN /\ w' = writeError(w, r.err)
             /\ pc' = "done"
             /\ log' = log \o <<"convertFromWavefront", "writeError">>
             /\ UNCHANGED promQLResult
        ELSE /\ promQLResult' = r.result
             /\ pc' = "encode"
             /\ log' = log \o <<"convertFromWavefront">>
                           \o AssemblyCalls(wavefrontResult)
             /\ UNCHANGED w
    /\ UNCHANGED <<skew, req, promQL, wavefrontQuery, executed,
                   wavefrontResult, rs, so, tr, mt, sched>>

\* ServeHTTP: the response is encoded to the writer.
ServeEncode ==
    /\ pc = "encode"
    /\ w' = Write(w, EncodeResponse(promQLResult))
    /\ pc' = "done"
    /\ log' = Append(log, "Encode")
    /\ UNCHANGED <<skew, req, promQL, wavefrontQuery, executed,
                   wavefrontResult, promQLResult, rs, so, tr, mt, sched>>

Next ==
    \/ Accept
    \/ ServeParse
    \/ ServeConvert
    \/ ServeSend
    \/ ServeFrom
    \/ ServeEncode

Spec == Init /\ [][Next]_vars

(***************************************************************************)
(* Properties of the request handler (specification Spec)                  *)
(***************************************************************************)

Count(seq, x) == Cardinality({i \in 1..Len(seq) : seq[i] = x})

Positions(seq, x) == {i \in 1..Len(seq) : seq[i] = x}

\* ServeHTTP holds a query that extractPromQL returned.
HoldsQuery == pc \in {"convert", "send", "from", "encode"}

IsNumber(x) == ~x.nan

\* The request was a GET or POST whose parameters extractPromQL rejected.
ParseRejected ==
    /\ pc = "done"
    /\ log = <<"extractPromQL", "writeError">>

\* C2 (the claim as stated): a Query is returned only when start, end and
\* step parse as numbers with step > 0 and end >= start, so every Query
\* that reaches the translator or the resampler has step > 0 and
\* end >= start.
C2_QueryIsValid ==
    HoldsQuery =>
        /\ IsNumber(promQL.Start) /\ IsNumber(promQL.End)
        /\ IsNumber(promQL.Step)
        /\ promQL.Step.v > 0
        /\ promQL.End.v >= promQL.Start.v

\* C2, the part that holds: a request whose step parses and is <= 0 is
\* rejected with the step-width message, one whose step is positive and
\* whose end is before its start with the end-before-start message, both
\* as bad_data.
C2_Rejections ==
    LET start == ParseFloat(req.form.start)
        end == ParseFloat(req.form.end)
        step == ParseFloat(req.form.step)
        served == pc \notin {"idle", "parse"}
                    /\ req.method \in {"GET", "POST"}
                    /\ start.ok /\ end.ok /\ step.ok
        rejectedWith(msg) ==
            /\ ParseRejected
            /\ w.code = 400
            /\ w.body = <<ErrorText(newBadDataPromQLError(msg))>>
    IN  /\ served /\ IsNumber(step.val) /\ step.val.v <= 0
            => rejectedWith(MsgStepWidth)
        /\ served /\ IsNumber(step.val) /\ step.val.v > 0
            /\ IsNumber(start.val) /\ IsNumber(end.val)
            /\ end.val.v < start.val.v
            => rejectedWith(MsgEndBeforeStart)

\* The handler wrote an error through writeError.
Failed == pc = "done" /\ Count(log, "writeError") > 0

\* The message C4 expects in the payload: the message of the *promQLError,
\* which for an error of the backend response is the upstream message, and
\* the message of the transport error.
FailureMessage ==
    IF executed.err # NoError THEN executed.err.Err
    ELSE IF Count(log, "convertFromWavefront") > 0
    THEN executed.response.ErrMessage
    ELSE w.body[1].obj.error

\* C4 (the claim as stated): every failure the handler handles, a transport
\* failure of the backend call included, is answered with status 400 and
\* the payload {status: "error", errorType: "bad_data", error: message}.
C4_UniformErrorPayload ==
    Failed =>
        /\ w.code = 400
        /\ Len(w.body) = 1
        /\ w.body[1].json
        /\ w.body[1].obj = [status |-> "error", errorType |-> "bad_data",
                            error |-> FailureMessage]

\* C4, the part that holds: every failure is answered with status 400, and
\* a failure that is no transport failure carries the JSON payload.
C4_ErrorsAre400 ==
    Failed =>
        /\ w.code = 400
        /\ Len(w.body) = 1
        /\ executed.err = NoError =>
            /\ w.body[1].json
            /\ w.body[1].obj = [status |-> "error", errorType |-> "bad_data",
                                error |-> FailureMessage]

\* A chunk is a complete success matrix for the backend response.
IsSuccessMatrix(chunk) ==
    /\ chunk.json
    /\ DOMAIN chunk.obj = {"status", "data"}
    /\ chunk.obj.status = "success"
    /\ chunk.obj.data.resultType = "matrix"
    /\ Len(chunk.obj.data.result) = Len(executed.response.TimeSeries)

\* A chunk is an error body: the JSON error payload or a plain text.
IsErrorBody(chunk) ==
    \/ ~chunk.json /\ chunk.text # <<>>
    \/ /\ chunk.json
       /\ DOMAIN chunk.obj = {"status", "errorType", "error"}
       /\ chunk.obj.status = "error"

\* C5: the response of a request is all or nothing: nothing is written
\* before the handler has decided, and what is written is exactly one
\* chunk, either the complete success matrix with status 200 or an error
\* body with an error status; a writeError and an Encode never both happen.
C5_AllOrNothing ==
    /\ pc # "done" => w = NewWriter
    /\ pc # "done" =>
        Count(log, "writeError") = 0 /\ Count(log, "Encode") = 0
    /\ pc = "done" =>
        /\ Len(w.body) = 1
        /\ Count(log, "writeError") + Count(log, "Encode") <= 1
        /\ \/ /\ w.code = 200
              /\ IsSuccessMatrix(w.body[1])
              /\ Count(log, "Encode") = 1
           \/ /\ w.code \in {400, 405}
              /\ IsErrorBody(w.body[1])
              /\ Count(log, "Encode") = 0

\* C5 witness: a request was answered with a matrix of two series.
C5_Witness ==
    /\ pc = "done"
    /\ w.code = 200
    /\ Len(w.body) = 1
    /\ Len(w.body[1].obj.data.result) = 2

\* C6: the backend is called at most once per request; a request that
\* fails parsing never calls it; after a failed call the handler writes the
\* error and ends, with no second call, no skew correction, no resampling
\* and no sorting.
C6_NoRetry ==
    /\ Count(log, "Execute") <= 1
    /\ ParseRejected => Count(log, "Execute") = 0
    /\ pc \in {"idle", "parse", "convert", "send"} =>
            Count(log, "Execute") = 0
    /\ executed.err # NoError =>
        /\ pc = "done"
        /\ log = <<"extractPromQL", "convertToWavefrontAndSkewEarlier",
                   "Execute", "writeError">>
        /\ wavefrontResult = NoQueryResponse
        /\ promQLResult = NoResponse

\* C6 witness: the backend call failed and the error was written.
C6_Witness ==
    /\ executed.err # NoError
    /\ pc = "done"
    /\ w.code = 400

\* C10: after a backend call that returned a response, skewLater has added
\* the skew to the timestamp of every data point of every series and left
\* the values, the order, the labels, the hosts and the tags alone; with
\* skew 0 the response is unchanged; and skewLater comes before every
\* extractPromQLData.
C10_SkewLater ==
    /\ Count(log, "Execute") = 1 /\ executed.err = NoError =>
        LET raw == executed.response
            got == wavefrontResult
        IN  /\ got.ErrType = raw.ErrType
            /\ got.ErrMessage = raw.ErrMessage
            /\ Len(got.TimeSeries) = Len(raw.TimeSeries)
            /\ \A i \in 1..Len(raw.TimeSeries) :
                LET a == raw.TimeSeries[i]
                    b == got.TimeSeries[i]
                IN  /\ b.Label = a.Label
                    /\ b.Host = a.Host
                    /\ b.Tags = a.Tags
                    /\ Len(b.DataPoints) = Len(a.DataPoints)
                    /\ \A j \in 1..Len(a.DataPoints) :
                        /\ b.DataPoints[j][2] = a.DataPoints[j][2]
                        /\ (b.DataPoints[j][1] - a.DataPoints[j][1])
                              * (MicrosPerSec \div TicksPerSec) = skew
            /\ skew = 0 => got = raw
            /\ Count(log, "skewLater") = 1
    /\ \A i \in Positions(log, "extractPromQLData") :
        \E j \in Positions(log, "skewLater") : j < i

\* C10 witness: a response with data points went through skewLater with a
\* skew that is not 0, and was resampled.
C10_Witness ==
    /\ pc = "encode"
    /\ skew # 0
    /\ \E i \in 1..Len(wavefrontResult.TimeSeries) :
            Len(wavefrontResult.TimeSeries[i].DataPoints) > 1
    /\ Count(log, "extractPromQLData") > 0

\* The handler answered the request with this one bad_data error, raised by
\* the validation.
RejectedWith(msg) ==
    /\ ParseRejected
    /\ w.code = 400
    /\ w.body = <<ErrorText(newBadDataPromQLError(msg))>>

\* C16: the validation of a GET or POST request reports one error, the
\* first that applies of: start does not parse, end does not parse, step
\* does not parse, step <= 0, end < start.  So step <= 0 is reported when
\* end < start holds too, and a step that does not parse is reported when
\* end < start.
C16_Precedence ==
    LET f == req.form
        start == ParseFloat(f.start)
        end == ParseFloat(f.end)
        step == ParseFloat(f.step)
        served == pc \notin {"unused", "idle", "parse"}
                    /\ req.method \in {"GET", "POST"}
    IN  served =>
          /\ ~start.ok =>
                RejectedWith(<<"invalid parameter 'start': cannot parse \"",
                               f.start, "\" to a valid timestamp">>)
          /\ start.ok /\ ~end.ok =>
                RejectedWith(<<"invalid parameter 'end': cannot parse \"",
                               f.end, "\" to a valid timestamp">>)
          /\ start.ok /\ end.ok /\ ~step.ok =>
                RejectedWith(<<"invalid parameter 'step': cannot parse \"",
                               f.step, "\" to a valid duration">>)
          /\ start.ok /\ end.ok /\ step.ok
                /\ IsNumber(step.val) /\ step.val.v <= 0 =>
                RejectedWith(MsgStepWidth)
          /\ start.ok /\ end.ok /\ step.ok
                /\ IsNumber(step.val) /\ step.val.v > 0
                /\ IsNumber(start.val) /\ IsNumber(end.val)
                /\ end.val.v < start.val.v =>
                RejectedWith(MsgEndBeforeStart)
          /\ ParseRejected => Count(log, "writeError") = 1 /\ Len(w.body) = 1

\* C16 witness: a request with step <= 0 and end < start was answered with
\* the step-width error.
C16_Witness ==
    /\ pc = "done"
    /\ req.method = "GET"
    /\ req.form.start = T_100
    /\ req.form.end = T_50
    /\ req.form.step = <<"0">>
    /\ RejectedWith(MsgStepWidth)

(***************************************************************************)
(* convertToWavefrontAndSkewEarlier on its own (SpecTranslate)             *)
(***************************************************************************)

\* Microseconds per tick.
MicrosPerTick == MicrosPerSec \div TicksPerSec

\* Start times, in ticks: 100 s, 14.9995 s, 0.0005 s, 15 s, -3 s, 20.0005 s.
TrStarts == {Sec(100), Sec(15) - 1, 1, Sec(15), -Sec(3), Sec(20) + 1}

\* end - start, in ticks: 0, 0.0005 s, 30 s.
TrSpans == {0, 1, Sec(30)}

\* Skews in microseconds: none, 5 s, -5 s, 0.5 ms, -0.5 ms.
TrSkews == {0, 5 * MicrosPerSec, -5 * MicrosPerSec, MicrosPerTick,
            -MicrosPerTick}

InitTranslate ==
    /\ HandlerUnused
    /\ rs = Unused /\ so = Unused /\ mt = Unused
    /\ \E a \in TrStarts, d \in TrSpans, k \in TrSkews :
        tr = [pc |-> "call", hskew |-> k,
              query |-> [Start |-> Fin(a), End |-> Fin(a + d),
                         Step |-> Fin(Sec(10)),
                         Query |-> <<"c", "o", "s", "t">>],
              out |-> NoWavefrontQuery]

TranslateCall ==
    /\ tr.pc = "call"
    /\ \E q \in convertToWavefrontAndSkewEarlier(tr.hskew, tr.query) :
        tr' = [tr EXCEPT !.pc = "done", !.out = q]
    /\ UNCHANGED <<skew, pc, req, promQL, wavefrontQuery, executed,
                   wavefrontResult, promQLResult, w, log, rs, so, mt,
                   sched>>

NextTranslate == TranslateCall

SpecTranslate == InitTranslate /\ [][NextTranslate]_vars

\* The integer a decimal text denotes.
IntOfText(t) ==
    IF t # <<>> /\ t[1] = "-" THEN -DecVal(Tail(t)) ELSE DecVal(t)

\* n is the floor of x / d (d > 0).
IsFloorOf(n, x, d) == n * d <= x /\ x < (n + 1) * d

\* n is x / d truncated toward zero (d > 0).
IsTruncOf(n, x, d) ==
    IF x >= 0 THEN n * d <= x /\ x < (n + 1) * d
    ELSE (n - 1) * d < x /\ x <= n * d

\* (start - 15 - skew) and (end + 1 - skew) in microseconds.
TrStartMicros ==
    tr.query.Start.v * MicrosPerTick - 15 * MicrosPerSec - tr.hskew

TrEndMicros == tr.query.End.v * MicrosPerTick + MicrosPerSec - tr.hskew

TrExample ==
    /\ tr.query.Start = Fin(Sec(100))
    /\ tr.query.End = Fin(Sec(130))
    /\ tr.hskew = 0

\* C3 (the claim as stated): startMs = floor((start - 15 - skew) * 1000)
\* and endMs = floor((end + 1 - skew) * 1000) for every query and skew,
\* fractional and negative values included; the granularity is "s" and the
\* expression is unchanged.
C3_Floored ==
    tr.pc = "done" =>
        /\ IsFloorOf(IntOfText(tr.out.S), TrStartMicros, 1000)
        /\ IsFloorOf(IntOfText(tr.out.E), TrEndMicros, 1000)
        /\ tr.out.G = "s"
        /\ tr.out.Q = tr.query.Query

\* C3 (amended): startMs and endMs are (start - 15 - skew) * 1000 and
\* (end + 1 - skew) * 1000 truncated toward zero, which is the floor only
\* when the value is not negative; the granularity is "s" and the
\* expression is unchanged; start=100, end=130, skew=0 gives 85000 and
\* 131000.
C3_Truncated ==
    tr.pc = "done" =>
        /\ IsTruncOf(IntOfText(tr.out.S), TrStartMicros, 1000)
        /\ IsTruncOf(IntOfText(tr.out.E), TrEndMicros, 1000)
        /\ TrStartMicros >= 0 =>
                IsFloorOf(IntOfText(tr.out.S), TrStartMicros, 1000)
        /\ TrEndMicros >= 0 =>
                IsFloorOf(IntOfText(tr.out.E), TrEndMicros, 1000)
        /\ tr.out.G = "s"
        /\ tr.out.Q = tr.query.Query
        /\ TrExample =>
            /\ tr.out.S = <<"8", "5", "0", "0", "0">>
            /\ tr.out.E = <<"1", "3", "1", "0", "0", "0">>

\* C3 witness: a translated query whose start, in milliseconds, is
\* negative and not whole.
C3_Witness ==
    /\ tr.pc = "done"
    /\ TrStartMicros < 0
    /\ TrStartMicros % 1000 # 0

(***************************************************************************)
(* extractPromQLMetric on its own (SpecMetric)                             *)
(***************************************************************************)

\* The most tags of a series.
MaxTags == 2

TagKeys == {S_name, S_instance, Str("b")}

TagValues == {Str("c"), Str("1")}

TagMaps ==
    UNION {[K -> TagValues] :
            K \in {X \in SUBSET TagKeys : Cardinality(X) <= MaxTags}}

InitMetric ==
    /\ HandlerUnused
    /\ rs = Unused /\ so = Unused /\ tr = Unused
    /\ \E l \in {<<>>, Str("a"), Str("c")}, h \in {<<>>, Str("h"), Str("1")},
          t \in TagMaps :
        mt = [pc |-> "call",
              series |-> [Label |-> l, Host |-> h, Tags |-> t,
                          DataPoints |-> <<>>],
              out |-> EmptyMap]

MetricCall ==
    /\ mt.pc = "call"
    /\ mt' = [mt EXCEPT !.pc = "done",
                        !.out = extractPromQLMetric(mt.series)]
    /\ UNCHANGED <<skew, pc, req, promQL, wavefrontQuery, executed,
                   wavefrontResult, promQLResult, w, log, rs, so, tr,
                   sched>>

NextMetric == MetricCall

SpecMetric == InitMetric /\ [][NextMetric]_vars

\* What the claim says of a synthesized key: it is in the map exactly when
\* a tag has that name or the source field is not empty, and its value is
\* the tag's when a tag has that name, else the field's.
Synthesized(m, tags, key, field) ==
    /\ key \in DOMAIN m <=> (key \in DOMAIN tags \/ field # <<>>)
    /\ key \in DOMAIN tags => m[key] = tags[key]
    /\ key \notin DOMAIN tags /\ field # <<>> => m[key] = field

\* C9: the label map holds every tag with the tag's value; it holds
\* __name__ = label only when label is not empty and no tag is named
\* __name__, and instance = host only when host is not empty and no tag is
\* named instance; on a collision the tag wins; it holds nothing else.
C9_LabelMap ==
    mt.pc = "done" =>
        LET t == mt.series
            m == mt.out
        IN  /\ \A k \in DOMAIN t.Tags : k \in DOMAIN m /\ m[k] = t.Tags[k]
            /\ Synthesized(m, t.Tags, S_name, t.Label)
            /\ Synthesized(m, t.Tags, S_instance, t.Host)
            /\ DOMAIN m \subseteq (DOMAIN t.Tags) \cup {S_name, S_instance}

\* C9 witness: a series with a label and a tag named __name__ of another
\* value, and a host and no tag named instance.
C9_Witness ==
    /\ mt.pc = "done"
    /\ mt.series.Label # <<>>
    /\ S_name \in DOMAIN mt.series.Tags
    /\ mt.series.Tags[S_name] # mt.series.Label
    /\ mt.out[S_name] = mt.series.Tags[S_name]
    /\ mt.series.Host # <<>>
    /\ S_instance \notin DOMAIN mt.series.Tags
    /\ mt.out[S_instance] = mt.series.Host

(***************************************************************************)
(* sortTimeSeriesInPlace on its own (SpecSort)                             *)
(***************************************************************************)

\* The most series sorted.
MaxSortSeries == 3

MetricNameA == [k \in {S_name} |-> Str("a")]

MetricNameB == [k \in {S_name} |-> Str("b")]

MetricA1 == [k \in {Str("a")} |-> Str("1")]

MetricA1B2 ==
    [k \in {Str("a"), Str("b")} |-> IF k = Str("a") THEN Str("1") ELSE Str("2")]

MetricUniverse ==
    {MetricNameA, MetricNameB, MetricA1, MetricA1B2, EmptyMap}

\* The series at place i of the assembled response: its values hold one
\* point that tells the place.
SeriesAt(metric, i) ==
    [Metric |-> metric,
     Values |-> AppendSlice(NilSlice, <<Fin(Sec(i)), floatToString(i)>>)]

InitSort ==
    /\ HandlerUnused
    /\ rs = Unused /\ tr = Unused /\ mt = Unused
    /\ \E ms \in SeqsUpTo(MetricUniverse, MaxSortSeries) :
        so = [pc |-> "call",
              input |-> [i \in 1..Len(ms) |-> SeriesAt(ms[i], i)],
              output |-> <<>>]

SortCall ==
    /\ so.pc = "call"
    /\ \E out \in sortTimeSeriesInPlace(so.input) :
        so' = [so EXCEPT !.pc = "done", !.output = out]
    /\ UNCHANGED <<skew, pc, req, promQL, wavefrontQuery, executed,
                   wavefrontResult, promQLResult, w, log, rs, tr, mt,
                   sched>>

NextSort == SortCall

SpecSort == InitSort /\ [][NextSort]_vars

\* a is before b in the lexicographic order of Lt: at the first place where
\* they differ a is Lt-smaller, or a is a proper prefix of b.
LexLess(a, b, Lt(_, _)) ==
    \E n \in 0..Len(a) :
        /\ n <= Len(b)
        /\ \A i \in 1..n : a[i] = b[i]
        /\ \/ n = Len(a) /\ n < Len(b)
           \/ n < Len(a) /\ n < Len(b) /\ Lt(a[n + 1], b[n + 1])

ByteLess(c, d) == Code[c] < Code[d]

\* The order of strings.
StringBefore(x, y) == LexLess(x, y, ByteLess)

\* The order of sort keys.
KeyBefore(k, l) == LexLess(k, l, StringBefore)

\* k is the sort key of the label map m: its entries in ascending order of
\* the label name, flattened to name, value, name, value, ...
IsSortKey(k, m) ==
    /\ Len(k) = 2 * Cardinality(DOMAIN m)
    /\ \A i \in 1..Cardinality(DOMAIN m) :
        /\ k[2 * i - 1] \in DOMAIN m
        /\ k[2 * i] = m[k[2 * i - 1]]
    /\ \A i, j \in 1..Cardinality(DOMAIN m) :
        i < j => StringBefore(k[2 * i - 1], k[2 * j - 1])

\* C7: the output of sortTimeSeriesInPlace is a permutation of its input,
\* every series with its own label map and values, in non-decreasing order
\* of the sort key; {"__name__":"a"} comes before {"__name__":"b"} and
\* {"a":"1"} before {"a":"1","b":"2"}.
C7_Sorted ==
    so.pc = "done" =>
        LET in == so.input
            out == so.output
            key(x) == metricMapToSlice(x.Metric)
        IN  /\ Len(out) = Len(in)
            /\ \A i \in 1..Len(in) : Count(out, in[i]) = Count(in, in[i])
            /\ \A i \in 1..Len(out) : IsSortKey(key(out[i]), out[i].Metric)
            /\ \A i, j \in 1..Len(out) :
                i < j => ~KeyBefore(key(out[j]), key(out[i]))
            /\ \A i, j \in 1..Len(out) :
                /\ out[i].Metric = MetricNameA /\ out[j].Metric = MetricNameB
                    => i < j
                /\ out[i].Metric = MetricA1 /\ out[j].Metric = MetricA1B2
                    => i < j

\* C7 witness: three series that were not in order were sorted.
C7_Witness ==
    /\ so.pc = "done"
    /\ Len(so.output) = 3
    /\ so.output # so.input
    /\ so.output[1].Metric = MetricNameA
    /\ so.output[2].Metric = MetricA1
    /\ so.output[3].Metric = MetricA1B2

\* The place a series of the output had in the input.
InputPlace(x) == CHOOSE i \in 1..Len(so.input) : so.input[i] = x

\* C8 (the claim as stated): the sort is stable: two series with the same
\* label map keep, in the output, the order they had in the input.
C8_Stable ==
    so.pc = "done" =>
        \A i, j \in 1..Len(so.output) :
            i < j /\ so.output[i].Metric = so.output[j].Metric
                => InputPlace(so.output[i]) < InputPlace(so.output[j])

(***************************************************************************)
(* extractPromQLData pass by pass (SpecResample)                           *)
(***************************************************************************)

\* The most samples of a raw series.
MaxPoints == 3

\* The latest time, in seconds, of a sample and of the end of a query.
MaxTime == 4

\* The widest step, in seconds.
MaxStep == 3

\* The value of the sample at place j of a raw series.
SampleValue(j) ==
    CASE j = 1 -> 5 [] j = 2 -> -12 [] j = 3 -> 1500000 [] OTHER -> 7 * j

RawSeries ==
    {[j \in 1..Len(ts) |-> <<Sec(ts[j]), SampleValue(j)>>] :
        ts \in SeqsUpTo(0..MaxTime, MaxPoints)}

\* Queries as extractPromQL returns them: step > 0 and end >= start.
ResampleQueries ==
    {[Start |-> Fin(Sec(x[1])), End |-> Fin(Sec(x[2])), Step |-> Fin(Sec(x[3])),
      Query |-> <<>>] :
        x \in {y \in (1..2) \X (1..MaxTime) \X (1..MaxStep) : y[1] <= y[2]}}

InitResample ==
    /\ HandlerUnused
    /\ so = Unused /\ tr = Unused /\ mt = Unused
    /\ \E d \in RawSeries, q \in ResampleQueries :
        rs = [pc |-> "call", data |-> d, query |-> q, resultSize |-> 0,
              i |-> 0, indexPlus1 |-> 0, result |-> NilSlice]

\* The function is entered: an empty series returns the empty slice, else
\* the loop starts.
ResampleEnter ==
    /\ rs.pc = "call"
    /\ IF Len(rs.data) = 0
       THEN rs' = [rs EXCEPT !.pc = "done", !.result = EmptySlice]
       ELSE \E n \in ResultSizes(rs.query) :
                rs' = [rs EXCEPT !.pc = "loop", !.resultSize = n, !.i = 0,
                                 !.indexPlus1 = ResampleStart.indexPlus1,
                                 !.result = ResampleStart.result]
    /\ UNCHANGED <<skew, pc, req, promQL, wavefrontQuery, executed,
                   wavefrontResult, promQLResult, w, log, so, tr, mt,
                   sched>>

\* One pass of the loop.
ResamplePass ==
    /\ rs.pc = "loop"
    /\ rs.i < rs.resultSize
    /\ LET st == ResampleIteration(rs.data, rs.query, rs.i,
                    [indexPlus1 |-> rs.indexPlus1, result |-> rs.result])
       IN  rs' = [rs EXCEPT !.i = rs.i + 1, !.indexPlus1 = st.indexPlus1,
                            !.result = st.result]
    /\ UNCHANGED <<skew, pc, req, promQL, wavefrontQuery, executed,
                   wavefrontResult, promQLResult, w, log, so, tr, mt,
                   sched>>

\* The loop ends and the result is returned.
ResampleReturn ==
    /\ rs.pc = "loop"
    /\ rs.i >= rs.resultSize
    /\ rs' = [rs EXCEPT !.pc = "done"]
    /\ UNCHANGED <<skew, pc, req, promQL, wavefrontQuery, executed,
                   wavefrontResult, promQLResult, w, log, so, tr, mt,
                   sched>>

NextResample ==
    \/ ResampleEnter
    \/ ResamplePass
    \/ ResampleReturn

SpecResample == InitResample /\ [][NextResample]_vars

Ascending(data) ==
    \A j, k \in 1..Len(data) : j < k => data[j][1] <= data[k][1]

\* The number a text of floatToString denotes: digits with an optional
\* sign, point and exponent e+XX.
NumberOfText(t) ==
    LET neg == t # <<>> /\ t[1] = "-"
        body == IF neg THEN Tail(t) ELSE t
        es == {i \in 1..Len(body) : body[i] = "e"}
        epos == IF es = {} THEN Len(body) + 1 ELSE CHOOSE i \in es : TRUE
        mant == SubSeq(body, 1, epos - 1)
        exp == IF es = {} THEN 0 ELSE DecVal(SubSeq(body, epos + 2, Len(body)))
        ds == {i \in 1..Len(mant) : mant[i] = "."}
        dpos == IF ds = {} THEN Len(mant) + 1 ELSE CHOOSE i \in ds : TRUE
        digits == SubSeq(mant, 1, dpos - 1) \o SubSeq(mant, dpos + 1, Len(mant))
        frac == Len(mant) - dpos
        scale == exp - (IF frac > 0 THEN frac ELSE 0)
        mag == DecVal(digits) * (10 ^ scale)
    IN  IF neg THEN -mag ELSE mag

\* The grid of a query: N = floor((end - start) / step) + 1 timestamps
\* start + i * step.
GridSize(q) == (q.End.v - q.Start.v) \div q.Step.v + 1

GridTime(q, i) == q.Start.v + i * q.Step.v

\* Some sample is at most one step, exclusive, before t.
Fillable(data, q, t) ==
    \E j \in 1..Len(data) : 0 <= t - data[j][1] /\ t - data[j][1] < q.Step.v

\* The place of the most recent sample at or before t, the last one among
\* those that share its timestamp.
MostRecent(data, t) ==
    CHOOSE j \in 1..Len(data) :
        /\ data[j][1] <= t
        /\ \A k \in 1..Len(data) :
            data[k][1] <= t =>
                \/ data[k][1] < data[j][1]
                \/ data[k][1] = data[j][1] /\ k <= j

\* The grid indices whose point is emitted, in order.
FilledGrid(data, q) ==
    LET fills(i) == Fillable(data, q, GridTime(q, i))
    IN  SelectSeq([n \in 1..GridSize(q) |-> n - 1], fills)

\* C1: for a non-empty raw series ascending by timestamp, the result of
\* extractPromQLData has a point for the grid timestamp t_i exactly when
\* some sample is in (t_i - step, t_i]; its value is the text of the most
\* recent sample at or before t_i; the points are in grid order and the
\* other grid timestamps are left out.
C1_Resampled ==
    rs.pc = "done" /\ Len(rs.data) > 0 /\ Ascending(rs.data) =>
        LET grid == FilledGrid(rs.data, rs.query)
            items == rs.result.items
        IN  /\ Len(items) = Len(grid)
            /\ \A n \in 1..Len(grid) :
                LET t == GridTime(rs.query, grid[n])
                IN  /\ items[n][1] = Fin(t)
                    /\ NumberOfText(items[n][2])
                         = rs.data[MostRecent(rs.data, t)][2]

\* C1 witness: an ascending series with two samples at one timestamp, of
\* which the later one is emitted, and a grid with a point left out.
C1_Witness ==
    /\ rs.pc = "done"
    /\ Len(rs.data) = 3
    /\ Ascending(rs.data)
    /\ rs.data[1][1] = rs.data[2][1]
    /\ Len(rs.result.items) >= 1
    /\ rs.result.items[1][2] = floatToString(rs.data[2][2])
    /\ Len(rs.result.items) < GridSize(rs.query)

\* C11: a series with one sample at a time T before start resamples to no
\* point when start - T >= step, and otherwise to exactly one point, at the
\* grid timestamp start with the text of the sample's value, whatever the
\* number of grid points.
C11_SingleSampleBeforeStart ==
    rs.pc = "done" /\ Len(rs.data) = 1
        /\ rs.data[1][1] < rs.query.Start.v =>
        LET items == rs.result.items
        IN  IF rs.query.Start.v - rs.data[1][1] >= rs.query.Step.v
            THEN items = <<>>
            ELSE /\ Len(items) = 1
                 /\ items[1][1] = rs.query.Start
                 /\ NumberOfText(items[1][2]) = rs.data[1][2]

\* C11 witness: one sample less than a step before start, a grid of three
\* points or more, one point returned.
C11_Witness ==
    /\ rs.pc = "done"
    /\ Len(rs.data) = 1
    /\ rs.data[1][1] < rs.query.Start.v
    /\ rs.query.Start.v - rs.data[1][1] < rs.query.Step.v
    /\ GridSize(rs.query) >= 2
    /\ Len(rs.result.items) = 1

\* C12: for every raw series the result never has more than
\* floor((end - start) / step) + 1 points, at any moment of the loop and at
\* the return; at most one when end = start.
C12_LengthBound ==
    /\ Len(rs.result.items) <= GridSize(rs.query)
    /\ rs.query.End = rs.query.Start => Len(rs.result.items) <= 1

\* C12 witness: the bound is attained on a grid of three points or more.
C12_Witness ==
    /\ rs.pc = "done"
    /\ GridSize(rs.query) >= 3
    /\ Len(rs.result.items) = GridSize(rs.query)

\* The cursor is on a sample: data[indexPlus1-1] is within bounds, and
\* data[indexPlus1] is read only under indexPlus1 < len(data).
CursorInBounds ==
    rs.pc \in {"loop", "done"} /\ Len(rs.data) > 0 =>
        1 <= rs.indexPlus1 /\ rs.indexPlus1 <= Len(rs.data)

\* From one grid point to the next the cursor does not go back.
CursorForward ==
    rs.pc = "loop" => rs'.indexPlus1 >= rs.indexPlus1

\* C14: while any non-empty raw series is resampled, ascending or not,
\* 1 <= indexPlus1 <= len(data) holds and indexPlus1 never decreases from
\* one grid point to the next.
C14_Cursor == [](CursorInBounds) /\ [][CursorForward]_vars

\* C14 witness: a series that is not ascending and has two samples at one
\* timestamp, the cursor moved to its last sample before the last pass.
C14_Witness ==
    /\ rs.pc = "loop"
    /\ rs.i >= 1 /\ rs.i < rs.resultSize
    /\ Len(rs.data) = 3
    /\ ~Ascending(rs.data)
    /\ rs.data[1][1] = rs.data[2][1]
    /\ rs.indexPlus1 = 3

\* C15 (the claim as stated): the value returned is never the nil slice;
\* when no grid point is filled it is the empty slice that an empty raw
\* series gives.
C15_NeverNil ==
    rs.pc = "done" =>
        /\ ~rs.result.nil
        /\ rs.result.items = <<>> => rs.result = EmptySlice

(***************************************************************************)
(* Requests served side by side (SpecConcurrent)                           *)
(***************************************************************************)

\* net/http serves every request in a goroutine of its own.  The variables
\* of the handler are the frame of the goroutine that runs; sched holds
\* which one runs and the frames of the others.  skew, a field of the one
\* queryHandler, is common to all.
Goroutines == {1, 2}

\* The locals of ServeHTTP of the goroutine that runs.
CurFrame ==
    [pc |-> pc, req |-> req, promQL |-> promQL,
     wavefrontQuery |-> wavefrontQuery, executed |-> executed,
     wavefrontResult |-> wavefrontResult, promQLResult |-> promQLResult,
     w |-> w, log |-> log]

\* The frame of a goroutine that has entered ServeHTTP with request r.
EnteredFrame(r) ==
    [pc |-> "parse", req |-> r, promQL |-> NoQuery,
     wavefrontQuery |-> NoWavefrontQuery, executed |-> NoOutcome,
     wavefrontResult |-> NoQueryResponse, promQLResult |-> NoResponse,
     w |-> NewWriter, log |-> <<>>]

\* The requests served side by side: one that is valid and one that the
\* validation rejects.
ConcRequests ==
    {r \in Requests :
        /\ r.method = "GET"
        /\ r.form.start = T_100
        /\ r.form.end = T_110
        /\ r.form.step \in {<<"5">>, <<"0">>}}

\* Every goroutine has entered ServeHTTP with its request; goroutine 1
\* runs.
InitConcurrent ==
    /\ skew \in Skews
    /\ \E r \in ConcRequests :
        /\ pc = EnteredFrame(r).pc
        /\ req = r
    /\ promQL = NoQuery
    /\ wavefrontQuery = NoWavefrontQuery
    /\ executed = NoOutcome
    /\ wavefrontResult = NoQueryResponse
    /\ promQLResult = NoResponse
    /\ w = NewWriter
    /\ log = <<>>
    /\ \E f \in [Goroutines \ {1} -> {EnteredFrame(r) : r \in ConcRequests}] :
        sched = [running |-> 1, parked |-> f]
    /\ rs = Unused /\ so = Unused /\ tr = Unused /\ mt = Unused

\* The frames of the goroutines that do not run, after goroutine g is given
\* the processor.
ParkedAfter(g) ==
    [h \in Goroutines \ {g} |->
        IF h = sched.running THEN CurFrame ELSE sched.parked[h]]

\* A switch that leaves the backend response where it is, as if it were
\* kept in the queryHandler and not in a local of ServeHTTP: a faulty
\* variant, which C13_Isolation tells from Switch.
SwitchSharingResponse ==
    /\ sched # Unused
    /\ \E g \in DOMAIN sched.parked :
        LET f == sched.parked[g]
        IN  /\ pc' = f.pc
            /\ req' = f.req
            /\ promQL' = f.promQL
            /\ wavefrontQuery' = f.wavefrontQuery
            /\ executed' = f.executed
            /\ wavefrontResult' = wavefrontResult
            /\ promQLResult' = f.promQLResult
            /\ w' = f.w
            /\ log' = f.log
            /\ sched' = [running |-> g, parked |-> ParkedAfter(g)]
    /\ UNCHANGED <<skew, rs, so, tr, mt>>

\* The scheduler gives the processor to another goroutine: the locals of
\* the one that ran are kept in its frame, those of the other are the
\* locals now.  The queryHandler is not touched.
Switch ==
    /\ sched # Unused
    /\ \E g \in DOMAIN sched.parked :
        LET f == sched.parked[g]
        IN  /\ pc' = f.pc
            /\ req' = f.req
            /\ promQL' = f.promQL
            /\ wavefrontQuery' = f.wavefrontQuery
            /\ executed' = f.executed
            /\ wavefrontResult' = f.wavefrontResult
            /\ promQLResult' = f.promQLResult
            /\ w' = f.w
            /\ log' = f.log
            /\ sched' = [running |-> g, parked |-> ParkedAfter(g)]
    /\ UNCHANGED <<skew, rs, so, tr, mt>>

NextConcurrent ==
    \/ ServeParse
    \/ ServeConvert
    \/ ServeSend
    \/ ServeFrom
    \/ ServeEncode
    \/ Switch

SpecConcurrent == InitConcurrent /\ [][NextConcurrent]_vars

\* The responses ServeHTTP can write for request r when it is the only
\* request, the skew being s and q.Execute() returning out.
ServeAlone(s, r, out) ==
    IF r.method # "GET" /\ r.method # "POST"
    THEN {MethodNotAllowed(NewWriter)}
    ELSE LET p == extractPromQL(r.form)
         IN  IF ~p.ok THEN {writeError(NewWriter, p.err)}
             ELSE IF out.err # NoError THEN {writeError(NewWriter, out.err)}
             ELSE {IF c.ok
                   THEN Write(NewWriter, EncodeResponse(c.result))
                   ELSE writeError(NewWriter, c.err) :
                     c \in convertFromWavefront(skewLater(s, out.response),
                                                p.query)}

\* Everything in the frame f derives from the request of f, the outcome of
\* its own backend call and the skew: nothing in it comes from another
\* request.
FrameAlone(s, f) ==
    /\ f.pc \in {"convert", "send", "from", "encode"} =>
            f.promQL = extractPromQL(f.req.form).query
    /\ f.pc \in {"send", "from", "encode"} =>
            f.wavefrontQuery \in convertToWavefrontAndSkewEarlier(s, f.promQL)
    /\ f.pc \in {"from", "encode"} =>
            f.wavefrontResult = skewLater(s, f.executed.response)
    /\ f.pc = "encode" =>
            \E c \in convertFromWavefront(f.wavefrontResult, f.promQL) :
                c.ok /\ f.promQLResult = c.result
    /\ f.pc # "done" => f.w = NewWriter
    /\ f.pc = "done" => f.w \in ServeAlone(s, f.req, f.executed)

FramesAlone ==
    sched # Unused =>
        /\ FrameAlone(skew, CurFrame)
        /\ \A g \in DOMAIN sched.parked : FrameAlone(skew, sched.parked[g])

\* No step of a handler or of the scheduler modifies the configuration, and
\* a step of the running handler leaves the frames of the others alone.
ConfigurationReadOnly ==
    /\ skew' = skew
    /\ sched # Unused /\ sched'.running = sched.running =>
            sched'.parked = sched.parked

\* C13: however the steps of two requests interleave, the locals and the
\* response of each request derive from its own request, its own backend
\* outcome and the startup skew, as when it is served alone; no step
\* modifies the skew, and no step of a handler touches the frame of
\* another request.
C13_Isolation == [](FramesAlone) /\ [][ConfigurationReadOnly]_vars

\* C13 witness: two requests in the middle of ServeHTTP at once, with a
\* skew that is not zero, holding different backend responses; the one that
\* runs called the backend after the other did.
C13_Witness ==
    /\ sched # Unused
    /\ skew # 0
    /\ pc = "encode"
    /\ \E g \in DOMAIN sched.parked :
        /\ sched.parked[g].pc = "from"
        /\ sched.parked[g].wavefrontResult # wavefrontResult
        /\ Len(sched.parked[g].wavefrontResult.TimeSeries) = 2

====
